---- MODULE Spec2Model ----
(***************************************************************************)
(* Model of src/main.py: the YouTube-Music recommendation script.          *)
(*                                                                         *)
(* Python strings are modelled as sequences of one-character strings, so   *)
(* that the regular expressions and str methods of the source can be       *)
(* computed character by character.  Each function of the source is an     *)
(* operator; each specification (SpecQuery, SpecClean, SpecExtract,        *)
(* SpecRank, SpecCli, SpecPlaylist) draws the inputs of one part of the    *)
(* program from bounded sets and runs that part.                           *)
(***************************************************************************)
EXTENDS Integers, Sequences, FiniteSets, TLC

VARIABLES
    pc,             \* position of the running part of the program
    keywords,       \* build_ytmusic_query: the argument
    query,          \* build_ytmusic_query(keywords)
    query2,         \* build_ytmusic_query(query)
    s,              \* _clean_title: the argument
    cleaned,        \* _clean_title(s)
    recleaned,      \* _clean_title(cleaned)
    video_title,    \* extract_title_artist: the arguments
    channel_title,
    cleaned_t,              \* its locals: the cleaned video title,
    channel_c,              \* the trimmed channel title,
    pat_k,              \* the index in patterns of p
    match_m,              \* and the match of p
    extracted,      \* the pair extract_title_artist returns
    via,            \* the pattern whose match it returns (0: lines 55-59)
    kw_input,       \* build_user_prefs: the argument
    prefs,          \* build_user_prefs(kw_input)
    items,          \* rank_recommendations: the records to rank
    ranked,         \* its list ranked
    sc,             \* the locals of the last call of score_item
    user_input,     \* the command line: what input() returns
    api_key,        \* os.getenv("YOUTUBE_API_KEY")
    http_calls,     \* the calls of urlopen issued, in order
    fault,          \* the failure the environment injected ("none": none)
    exc,            \* the type of the exception being raised ("none": none)
    n_ids,          \* len(video_ids) of youtube_search_music
    response,       \* the viewCount of each item of videos_data
    results,        \* the list results of youtube_search_music
    printed,        \* what the command line printed, in order
    status,         \* "running", "exited" or "traceback" (an unhandled exception)
    video_urls,     \* create_ytmusic_playlist: the argument
    video_ids,      \* its local video_ids
    pl_id,          \* its local pl_id
    ytm_calls,      \* the calls of the YTMusic client, in order
    returned        \* what create_ytmusic_playlist returns

queryVars == <<keywords, query, query2>>
cleanVars == <<s, cleaned, recleaned>>
extractVars == <<video_title, channel_title, cleaned_t, channel_c, pat_k, match_m, extracted, via>>
rankVars == <<kw_input, prefs, items, ranked, sc>>
cliVars ==
    <<user_input, api_key, http_calls, fault, exc, n_ids, response, results, printed, status>>
playlistVars == <<video_urls, video_ids, pl_id, ytm_calls, returned>>
vars == <<pc, queryVars, cleanVars, extractVars, rankVars, cliVars, playlistVars>>

\* The value of a variable that holds nothing yet: no Python string (sequence of
\* characters) is equal to it.
Idle == <<"idle">>

(***************************************************************************)
(* Characters and the str / re primitives the source uses.                 *)
(***************************************************************************)
\* \s of the re module and the characters str.strip() removes (the ASCII ones used here)
WhiteSpace == {" ", "\t", "\n"}

IsSpace(c) == c \in WhiteSpace

RECURSIVE LStrip(_, _)
LStrip(str, chars) ==
    IF str = <<>> \/ Head(str) \notin chars THEN str ELSE LStrip(Tail(str), chars)

RECURSIVE RStrip(_, _)
RStrip(str, chars) ==
    IF str = <<>> \/ str[Len(str)] \notin chars
    THEN str
    ELSE RStrip(SubSeq(str, 1, Len(str) - 1), chars)

\* str.strip(chars); str.strip() is StripChars(str, WhiteSpace)
StripChars(str, chars) == RStrip(LStrip(str, chars), chars)

\* str.replace(old, new) for one-character old and new
ReplaceChar(str, old, new) ==
    [i \in 1..Len(str) |-> IF str[i] = old THEN new ELSE str[i]]

\* sep.join(strs)
RECURSIVE Join(_, _)
Join(strs, sep) ==
    IF strs = <<>> THEN <<>>
    ELSE IF Len(strs) = 1 THEN strs[1]
    ELSE strs[1] \o sep \o Join(Tail(strs), sep)

\* re.sub(r"\s+", " ", str): every maximal run of whitespace becomes one space
RECURSIVE CollapseWhitespace(_)
CollapseWhitespace(str) ==
    IF str = <<>> THEN <<>>
    ELSE IF IsSpace(Head(str))
         THEN <<" ">> \o CollapseWhitespace(LStrip(str, WhiteSpace))
         ELSE <<Head(str)>> \o CollapseWhitespace(Tail(str))

(***************************************************************************)
(* Character classes of the re module: \w, case folding under re.I and     *)
(* str.lower() (ASCII).                                                    *)
(***************************************************************************)
CasePairs ==
    {<<"A", "a">>,
     <<"B", "b">>,
     <<"C", "c">>,
     <<"D", "d">>,
     <<"E", "e">>,
     <<"F", "f">>,
     <<"G", "g">>,
     <<"H", "h">>,
     <<"I", "i">>,
     <<"J", "j">>,
     <<"K", "k">>,
     <<"L", "l">>,
     <<"M", "m">>,
     <<"N", "n">>,
     <<"O", "o">>,
     <<"P", "p">>,
     <<"Q", "q">>,
     <<"R", "r">>,
     <<"S", "s">>,
     <<"T", "t">>,
     <<"U", "u">>,
     <<"V", "v">>,
     <<"W", "w">>,
     <<"X", "x">>,
     <<"Y", "y">>,
     <<"Z", "z">>}

UpperChars == {p[1] : p \in CasePairs}
LowerChars == {p[2] : p \in CasePairs}
Digits == {"0", "1", "2", "3", "4", "5", "6", "7", "8", "9"}

\* \w
IsWord(c) == c \in UpperChars \cup LowerChars \cup Digits \cup {"_"}

Lower(c) == IF c \in UpperChars THEN (CHOOSE p \in CasePairs : p[1] = c)[2] ELSE c

\* str.lower()
LowerStr(str) == [i \in 1..Len(str) |-> Lower(str[i])]

\* the first index j >= i with str[j] = c, or 0
IndexFrom(str, c, i) ==
    LET js == {j \in i..Len(str) : str[j] = c}
    IN  IF js = {} THEN 0 ELSE CHOOSE j \in js : \A k \in js : j <= k

\* the literal word (lower case in the pattern) matches at index i, ignoring case
StartsWithCI(str, i, word) ==
    /\ i >= 1
    /\ i + Len(word) - 1 <= Len(str)
    /\ \A k \in 1..Len(word) : Lower(str[i + k - 1]) = word[k]

\* \b at the position before str[i] (i = Len(str) + 1: the end of the string)
WordBoundary(str, i) ==
    LET before == i > 1 /\ i - 1 <= Len(str) /\ IsWord(str[i - 1])
        after == i >= 1 /\ i <= Len(str) /\ IsWord(str[i])
    IN  before # after

\* the index after the whitespace run that starts at i (i itself when there is none)
SkipSpace(str, i) ==
    LET js == {j \in i..Len(str) : ~IsSpace(str[j])}
    IN  IF js = {} THEN Len(str) + 1 ELSE CHOOSE j \in js : \A k \in js : j <= k

(***************************************************************************)
(* _clean_title (main.py 32-38), one operator per statement.               *)
(***************************************************************************)
\* line 33: re.sub(r"\[[^\]]*\]", "", s)
RECURSIVE RemoveBracketed(_)
RemoveBracketed(str) ==
    LET i == IndexFrom(str, "[", 1)
        j == IF i = 0 THEN 0 ELSE IndexFrom(str, "]", i + 1)
    IN  IF j = 0 THEN str
        ELSE SubSeq(str, 1, i - 1) \o RemoveBracketed(SubSeq(str, j + 1, Len(str)))

\* line 34: the words a parenthesised segment must start with. "ver\.?" and
\* "version" start with "ver", and [^)]* takes the rest of either.
ParenVocabulary ==
    {<<"o", "f", "f", "i", "c", "i", "a", "l">>,
     <<"m", "v">>,
     <<"m", "/", "v">>,
     <<"l", "y", "r", "i", "c">>,
     <<"a", "u", "d", "i", "o">>,
     <<"t", "e", "a", "s", "e", "r">>,
     <<"p", "e", "r", "f", "o", "r", "m", "a", "n", "c", "e">>,
     <<"v", "e", "r">>,
     <<"s", "h", "o", "r", "t", "s">>,
     <<"f", "u", "l", "l", " ", "a", "l", "b", "u", "m">>,
     <<"v", "i", "s", "u", "a", "l", "i", "z", "e", "r">>}

\* line 34: re.sub(r"\((?:official|...|visualizer)[^)]*\)", "", s, flags=re.I)
ParenMatchAt(str, i) ==
    /\ str[i] = "("
    /\ \E w \in ParenVocabulary : StartsWithCI(str, i + 1, w)
    /\ IndexFrom(str, ")", i + 1) # 0

RECURSIVE RemoveParenthesised(_)
RemoveParenthesised(str) ==
    LET starts == {i \in 1..Len(str) : ParenMatchAt(str, i)}
    IN  IF starts = {} THEN str
        ELSE LET i == CHOOSE x \in starts : \A y \in starts : x <= y
                 j == IndexFrom(str, ")", i + 1)
             IN  SubSeq(str, 1, i - 1)
                    \o RemoveParenthesised(SubSeq(str, j + 1, Len(str)))

\* line 35: the alternatives that are one literal word
PlainTokens ==
    {<<"m", "v">>,
     <<"m", "/", "v">>,
     <<"a", "u", "d", "i", "o">>,
     <<"t", "e", "a", "s", "e", "r">>,
     <<"v", "i", "s", "u", "a", "l", "i", "z", "e", "r">>,
     <<"s", "h", "o", "r", "t", "s">>}

Official == <<"o", "f", "f", "i", "c", "i", "a", "l">>
Lyric == <<"l", "y", "r", "i", "c">>
Video == <<"v", "i", "d", "e", "o">>

\* line 35: the last index of the match of
\* \b(official\s*(video)?|mv|m/v|lyric\s*video|audio|teaser|visualizer|shorts)\b
\* that starts at i, or 0. \s* is greedy and gives whitespace back only when the
\* rest fails; the alternatives start differently, so at most one applies.
TokenEnd(str, i) ==
    IF ~WordBoundary(str, i) THEN 0
    ELSE IF StartsWithCI(str, i, Official)
    THEN LET p == i + Len(Official)
             q == SkipSpace(str, p)
         IN  IF StartsWithCI(str, q, Video) /\ WordBoundary(str, q + Len(Video))
             THEN q + Len(Video) - 1
             ELSE IF WordBoundary(str, q) THEN q - 1
             ELSE IF WordBoundary(str, p) THEN p - 1
             ELSE 0
    ELSE IF StartsWithCI(str, i, Lyric)
    THEN LET q == SkipSpace(str, i + Len(Lyric))
         IN  IF StartsWithCI(str, q, Video) /\ WordBoundary(str, q + Len(Video))
             THEN q + Len(Video) - 1
             ELSE 0
    ELSE LET ws == {w \in PlainTokens :
                        StartsWithCI(str, i, w) /\ WordBoundary(str, i + Len(w))}
         IN  IF ws = {} THEN 0 ELSE i + Len(CHOOSE w \in ws : TRUE) - 1

\* line 35: re.sub of the pattern by "", scanning from index i
RECURSIVE RemoveTokensFrom(_, _)
RemoveTokensFrom(str, i) ==
    IF i > Len(str) THEN <<>>
    ELSE LET e == TokenEnd(str, i)
         IN  IF e = 0 THEN <<str[i]>> \o RemoveTokensFrom(str, i + 1)
             ELSE RemoveTokensFrom(str, e + 1)

RemoveTokens(str) == RemoveTokensFrom(str, 1)

\* line 36: the last index of the match of \s+\|\s*.*$ that starts at i, or 0.
\* \s+ must run up to the pipe; after the pipe \s* takes whitespace (line breaks
\* included), "." takes no line break, and $ is the end of the string or the
\* position before a final line break.
PipeMatchEnd(str, i) ==
    IF ~IsSpace(str[i]) THEN 0
    ELSE LET p == SkipSpace(str, i)
         IN  IF p > Len(str) \/ str[p] # "|" THEN 0
             ELSE LET qmax == SkipSpace(str, p + 1) - 1
                      DotEnd(q) == LET n == IndexFrom(str, "\n", q + 1)
                                   IN  IF n = 0 THEN Len(str) ELSE n - 1
                      AtEnd(e) == e = Len(str) \/ (e = Len(str) - 1 /\ str[Len(str)] = "\n")
                      qs == {q \in p..qmax : AtEnd(DotEnd(q))}
                 IN  IF qs = {} THEN 0
                     ELSE DotEnd(CHOOSE q \in qs : \A r \in qs : r <= q)

\* line 36 left out
TruncateNothing(str) == str

\* line 36: re.sub(r"\s+\|\s*.*$", "", s)
TruncateAtPipe(str) ==
    LET starts == {i \in 1..Len(str) : PipeMatchEnd(str, i) # 0}
    IN  IF starts = {} THEN str
        ELSE LET i == CHOOSE x \in starts : \A y \in starts : x <= y
             IN  SubSeq(str, 1, i - 1) \o SubSeq(str, PipeMatchEnd(str, i) + 1, Len(str))

\* line 37: re.sub(r"\s{2,}", " ", s)
RECURSIVE CollapseRuns(_)
CollapseRuns(str) ==
    IF str = <<>> THEN <<>>
    ELSE IF IsSpace(Head(str)) /\ Len(str) >= 2 /\ IsSpace(str[2])
         THEN <<" ">> \o CollapseRuns(LStrip(str, WhiteSpace))
         ELSE <<Head(str)>> \o CollapseRuns(Tail(str))

\* line 37: the characters of .strip(" -|")
EdgeChars == {" ", "-", "|"}

clean_title(str) ==
    LET s1 == RemoveBracketed(str)
        s2 == RemoveParenthesised(s1)
        s3 == RemoveTokens(s2)
        s4 == TruncateAtPipe(s3)
        s5 == StripChars(CollapseRuns(s4), EdgeChars)
    IN  StripChars(s5, WhiteSpace)

(***************************************************************************)
(* build_ytmusic_query (main.py 9-16).  The argument is tagged with the    *)
(* outcome of isinstance(keywords, str).                                   *)
(***************************************************************************)
build_ytmusic_query(kw) ==
    LET raw0 == IF kw.isstr THEN kw.val ELSE Join(kw.val, <<" ">>)
        raw1 == ReplaceChar(StripChars(raw0, WhiteSpace), ",", " ")
    IN  CollapseWhitespace(raw1)

\* Bounds of the inputs of SpecQuery
MaxQueryLen == 3
MaxKeywordLen == 2
MaxKeywords == 2

QueryAlphabet == {"a", ",", " "}

RECURSIVE StringsUpTo(_, _)
StringsUpTo(alphabet, n) ==
    IF n = 0 THEN {<<>>}
    ELSE LET shorter == StringsUpTo(alphabet, n - 1)
         IN  shorter \cup {<<c>> \o t : c \in alphabet, t \in {u \in shorter : Len(u) = n - 1}}

RECURSIVE ListsUpTo(_, _)
ListsUpTo(elems, n) ==
    IF n = 0 THEN {<<>>}
    ELSE LET shorter == ListsUpTo(elems, n - 1)
         IN  shorter \cup {<<e>> \o t : e \in elems, t \in {u \in shorter : Len(u) = n - 1}}

QueryInputs ==
    {[isstr |-> TRUE, val |-> str] : str \in StringsUpTo(QueryAlphabet, MaxQueryLen)}
    \cup {[isstr |-> FALSE, val |-> l] :
            l \in ListsUpTo(StringsUpTo(QueryAlphabet, MaxKeywordLen), MaxKeywords)}

QueryInit ==
    /\ pc = "query"
    /\ keywords \in QueryInputs
    /\ query = Idle
    /\ query2 = Idle
    /\ s = Idle
    /\ cleaned = Idle
    /\ recleaned = Idle
    /\ video_title = Idle
    /\ channel_title = Idle
    /\ cleaned_t = Idle
    /\ channel_c = Idle
    /\ pat_k = 0
    /\ match_m = Idle
    /\ extracted = Idle
    /\ via = 0
    /\ kw_input = Idle
    /\ prefs = Idle
    /\ items = Idle
    /\ ranked = Idle
    /\ sc = Idle
    /\ user_input = Idle
    /\ api_key = Idle
    /\ http_calls = <<>>
    /\ fault = "none"
    /\ exc = "none"
    /\ n_ids = 0
    /\ response = <<>>
    /\ results = <<>>
    /\ printed = <<>>
    /\ status = "idle"
    /\ video_urls = <<>>
    /\ video_ids = <<>>
    /\ pl_id = "none"
    /\ ytm_calls = <<>>
    /\ returned = "none"

\* query = build_ytmusic_query(keywords)
BuildQuery ==
    /\ pc = "query"
    /\ query' = build_ytmusic_query(keywords)
    /\ pc' = "requery"
    /\ UNCHANGED <<keywords, query2>>

\* the built query fed back to the builder as a string
RebuildQuery ==
    /\ pc = "requery"
    /\ query2' = build_ytmusic_query([isstr |-> TRUE, val |-> query])
    /\ pc' = "done"
    /\ UNCHANGED <<keywords, query>>

QueryNext ==
    \/ BuildQuery /\ UNCHANGED <<cleanVars, extractVars, rankVars, cliVars, playlistVars>>
    \/ RebuildQuery /\ UNCHANGED <<cleanVars, extractVars, rankVars, cliVars, playlistVars>>

\* the variables of a part that is not running
SpecQuery == QueryInit /\ [][QueryNext]_vars

\* C2: build_ytmusic_query is idempotent: building the query of a built query
\* gives the same query, for every string or list of strings.
QueryIdempotent == pc = "done" => query2 = query

(***************************************************************************)
(* extract_title_artist (main.py 40-59).                                   *)
(***************************************************************************)
\* Python's None
None == <<"None">>

\* x or y, for x a string or None
Or(x, y) == IF x = None \/ x = <<>> THEN y ELSE x

\* the character U+2014 of the third pattern (line 46)
EmDash == "U+2014"

\* Patterns with a second pattern that differs from the first: title first,
\* around U+2014
PatternsSecondEmDash ==
    <<[sep |-> "-", first |-> "artist"],
      [sep |-> EmDash, first |-> "title"],
      [sep |-> EmDash, first |-> "artist"]>>

\* lines 43-47: the separator of each pattern and the name of its first group
Patterns ==
    <<[sep |-> "-", first |-> "artist"],
      [sep |-> "-", first |-> "title"],
      [sep |-> EmDash, first |-> "artist"]>>

NoLineBreak(str, i, j) == \A k \in i..j : str[k] # "\n"

AllSpace(str, i, j) == \A k \in i..j : IsSpace(str[k])

\* $ after index e: the end of the string or the position before a final line break
AtEnd(str, e) == e = Len(str) \/ (e = Len(str) - 1 /\ str[Len(str)] = "\n")

Least(S) == CHOOSE x \in S : \A y \in S : x <= y
Greatest(S) == CHOOSE x \in S : \A y \in S : y <= x

\* The parts of a match of r"^\s*(.+?)\s*SEP\s*(.+?)\s*$" in str, from the right:
\* the second group ends at e, and \s*$ takes the rest
TailOk(str, e) == \E f \in e..Len(str) : AllSpace(str, e + 1, f) /\ AtEnd(str, f)

\* the ends of a second group that starts at g
Ends2(str, g) == {e \in g..Len(str) : NoLineBreak(str, g, e) /\ TailOk(str, e)}

\* the starts of a second group after a separator at index p
Starts2(str, p) ==
    {g \in p + 1..Len(str) : AllSpace(str, p + 1, g - 1) /\ Ends2(str, g) # {}}

\* the separators a first group ending at a can be followed by
Seps(str, sep, a) ==
    {p \in a + 1..Len(str) :
        AllSpace(str, a + 1, p - 1) /\ str[p] = sep /\ Starts2(str, p) # {}}

\* the ends of a first group that starts at g
Ends1(str, sep, g) ==
    {a \in g..Len(str) : NoLineBreak(str, g, a) /\ Seps(str, sep, a) # {}}

\* the starts of a first group
Starts1(str, sep) ==
    {g \in 1..Len(str) : AllSpace(str, 1, g - 1) /\ Ends1(str, sep, g) # {}}

\* re.match(r"^\s*(.+?)\s*SEP\s*(.+?)\s*$", str): the two groups, or ok = FALSE.
\* The choices are made in the order the matcher tries them: the leading \s* as
\* long as possible, the first group as short as possible, the whitespace around
\* the separator as long as possible, the second group as short as possible.
PatternMatch(str, sep) ==
    IF Starts1(str, sep) = {} THEN [ok |-> FALSE]
    ELSE LET g1 == Greatest(Starts1(str, sep))
             a == Least(Ends1(str, sep, g1))
             p == Greatest(Seps(str, sep, a))
             g2 == Greatest(Starts2(str, p))
             e == Least(Ends2(str, g2))
         IN  [ok |-> TRUE, first |-> SubSeq(str, g1, a), second |-> SubSeq(str, g2, e)]

\* lines 51-52: the cleaned groups "title" and "artist" of the match mt of pat
CleanedGroups(pat, mt) ==
    [artist |-> clean_title(IF pat.first = "artist" THEN mt.first ELSE mt.second),
     title |-> clean_title(IF pat.first = "artist" THEN mt.second ELSE mt.first)]

\* lines 49-53: pat matches str and both cleaned groups are non-empty
PatternYields(pat, str) ==
    LET mt == PatternMatch(str, pat.sep)
    IN  mt.ok /\ CleanedGroups(pat, mt).artist # <<>> /\ CleanedGroups(pat, mt).title # <<>>

TopicSuffix == <<" ", "-", " ", "t", "o", "p", "i", "c">>

\* c.lower().endswith(" - topic")
EndsWithTopic(str) ==
    /\ Len(str) >= Len(TopicSuffix)
    /\ SubSeq(LowerStr(str), Len(str) - Len(TopicSuffix) + 1, Len(str)) = TopicSuffix

\* lines 55-56: c = c[:-8].strip() when c ends with " - topic"
StripTopic(str) ==
    IF str # <<>> /\ EndsWithTopic(str)
    THEN StripChars(SubSeq(str, 1, Len(str) - 8), WhiteSpace)
    ELSE str

\* FallbackPair without the "or video_title" / "or channel_title" of line 59
FallbackPairNoOriginal(ct0, cc, vt, ct) == <<ct0, cc>>

\* lines 57-59: ct0 and cc are t and c (c after lines 55-56), vt and ct the arguments
FallbackPair(ct0, cc, vt, ct) ==
    IF ct0 # <<>> /\ cc # <<>> THEN <<ct0, cc>>
    ELSE <<StripChars(Or(Or(ct0, vt), <<>>), WhiteSpace),
           StripChars(Or(Or(cc, ct), <<>>), WhiteSpace)>>

\* extract_title_artist as a function of its arguments and of the list of
\* patterns (lines 41-59): the pair it returns
extract_with(pats, vt, ct) ==
    LET ct0 == clean_title(Or(vt, <<>>))
        cc == StripChars(Or(ct, <<>>), WhiteSpace)
        ks == {i \in 1..Len(pats) : PatternYields(pats[i], ct0)}
    IN  IF ks # {}
        THEN LET g == CleanedGroups(pats[Least(ks)], PatternMatch(ct0, pats[Least(ks)].sep))
             IN  <<g.title, g.artist>>
        ELSE FallbackPair(ct0, StripTopic(cc), vt, ct)

(***************************************************************************)
(* build_user_prefs, score_item, rank_recommendations (main.py 111-167).   *)
(* A score is kept in thousandths, as an integer: it is 1000 times the     *)
(* value round(s, 3) that rank_recommendations stores and sorts by.        *)
(***************************************************************************)
\* str.split(sep) for a one-character sep
RECURSIVE Split(_, _)
Split(str, sep) ==
    LET i == IndexFrom(str, sep, 1)
    IN  IF i = 0 THEN <<str>>
        ELSE <<SubSeq(str, 1, i - 1)>> \o Split(SubSeq(str, i + 1, Len(str)), sep)

\* [f(x) for x in seq if x.strip()] of lines 114 and 116, f being str.strip
RECURSIVE StrippedNonEmpty(_)
StrippedNonEmpty(seq) ==
    IF seq = <<>> THEN <<>>
    ELSE LET x == StripChars(Head(seq), WhiteSpace)
         IN  (IF x # <<>> THEN <<x>> ELSE <<>>) \o StrippedNonEmpty(Tail(seq))

\* line 121
PenaltyTerms == <<<<"l", "i", "v", "e">>, <<"c", "o", "v", "e", "r">>, <<"r", "e", "m", "i", "x">>>>

build_user_prefs(kw) ==
    LET kws == IF kw.isstr THEN StrippedNonEmpty(Split(kw.val, ","))
               ELSE StrippedNonEmpty(kw.val)
    IN  [keywords |-> kws,
         keywords_lower |-> [i \in 1..Len(kws) |-> LowerStr(kws[i])],
         penalty_terms |-> PenaltyTerms]

\* kw in text
Contains(text, kw) ==
    \E i \in 1..Len(text) - Len(kw) + 1 : SubSeq(text, i, i + Len(kw) - 1) = kw

\* re.search(rf"\b{re.escape(w)}\b", text)
WholeWordIn(text, w) ==
    \E i \in 1..Len(text) - Len(w) + 1 :
        /\ SubSeq(text, i, i + Len(w) - 1) = w
        /\ WordBoundary(text, i)
        /\ WordBoundary(text, i + Len(w))

InSeq(x, seq) == \E i \in 1..Len(seq) : seq[i] = x

\* all(...) in the place of any(...)
KwHasAllPenaltyTerms(pr) ==
    \A i \in 1..Len(pr.penalty_terms) : InSeq(pr.penalty_terms[i], pr.keywords_lower)

\* line 149: any(t in prefs["keywords_lower"] for t in prefs["penalty_terms"])
KwHasPenaltyTerms(pr) ==
    \E i \in 1..Len(pr.penalty_terms) : InSeq(pr.penalty_terms[i], pr.keywords_lower)

\* math.log10 at the powers of ten, where it is exact (the views of the records
\* ranked here are one less than a power of ten)
RECURSIVE Log10(_)
Log10(n) == IF n < 10 THEN 0 ELSE 1 + Log10(n \div 10)

\* lines 131-141
RECURSIVE KwScore(_, _, _, _)
KwScore(kws, text, title, artist) ==
    IF kws = <<>> THEN 0
    ELSE LET kw == Head(kws)
             here == IF kw = <<>> THEN 0
                     ELSE (IF Contains(text, kw) THEN 2 ELSE 0)
                          + (IF Contains(title, kw) THEN 1 ELSE 0)
                          + (IF Contains(artist, kw) THEN 1 ELSE 0)
         IN  here + KwScore(Tail(kws), text, title, artist)

\* lines 151-153
RECURSIVE PenaltyOf(_, _)
PenaltyOf(terms, text) ==
    IF terms = <<>> THEN 0
    ELSE (IF WholeWordIn(text, Head(terms)) THEN 1 ELSE 0) + PenaltyOf(Tail(terms), text)

\* dict.get(key, default); a dict is a function of its keys
Get(dict, key, default) == IF key \in DOMAIN dict THEN dict[key] ELSE default

\* score_item: its locals, and score = 1000 * round(kw_score * 1.5 + pop_score *
\* 0.7 - penalty * 0.8, 3)
score_item(item, pr) ==
    LET title == LowerStr(Or(Or(Get(item, "song_title", None), Get(item, "title", None)), <<>>))
        artist == LowerStr(Or(Or(Get(item, "artist", None), Get(item, "channel", None)), <<>>))
        text == title \o <<" ">> \o artist
        kw_score == KwScore(pr.keywords_lower, text, title, artist)
        views == Get(item, "views", 0)
        pop_score == Log10(views + 1)
        penalty == IF ~KwHasPenaltyTerms(pr) THEN PenaltyOf(pr.penalty_terms, text) ELSE 0
    IN  [text |-> text, kw_score |-> kw_score, pop_score |-> pop_score,
         penalty |-> penalty,
         score |-> kw_score * 1500 + pop_score * 700 - penalty * 800]

\* the place of x in a list sorted by key, largest first, when it goes before
\* the entries of its own key
PlaceBeforeTies(sorted, x, key) ==
    Cardinality({i \in 1..Len(sorted) : sorted[i][key] > x[key]})

\* the place of x in a list sorted by key, largest first: after the entries
\* whose key is at least its own (list.sort is stable, also with reverse=True)
PlaceInSorted(sorted, x, key) ==
    Cardinality({i \in 1..Len(sorted) : sorted[i][key] >= x[key]})

InsertAt(seq, n, x) == SubSeq(seq, 1, n) \o <<x>> \o SubSeq(seq, n + 1, Len(seq))

\* lines 108 and 166: seq.sort(key=lambda x: x[key], reverse=True), onto sorted
RECURSIVE SortDescBy(_, _, _)
SortDescBy(seq, key, sorted) ==
    IF seq = <<>> THEN sorted
    ELSE SortDescBy(Tail(seq), key,
                    InsertAt(sorted, PlaceInSorted(sorted, Head(seq), key), Head(seq)))

\* lines 163-164: it2 = dict(it); it2["score"] = round(s, 3)
WithScore(item, score) ==
    [key \in DOMAIN item \cup {"score"} |-> IF key = "score" THEN score ELSE item[key]]

(***************************************************************************)
(* youtube_search_music, _http_get_json and the command line (main.py      *)
(* 22-30, 61-109, 169-197).  The network and the API are the environment:  *)
(* each call of urlopen ends in one of HttpOutcomes, and a response is     *)
(* reduced to what decides the control flow (how many video ids the search *)
(* gave, the viewCount string of each video).  The titles are left out of  *)
(* the records: extract_title_artist returns for every title (SpecExtract).*)
(***************************************************************************)
\* how a call of _http_get_json can end
HttpOutcomes ==
    {"ok",                \* a 2xx response with a JSON body
     "http_error",        \* a non-2xx response: urlopen raises HTTPError
     "unreachable",       \* urlopen raises URLError
     "connect_timeout",   \* the timeout while connecting: urlopen wraps it in URLError
     "read_timeout",      \* the timeout in resp.read(): TimeoutError (socket.timeout)
     "bad_body"}          \* json.loads raises JSONDecodeError

\* lines 24-30: the exception _http_get_json leaves with
RaisedBy(outcome) ==
    CASE outcome = "http_error" -> "RuntimeError"
      [] outcome = "unreachable" -> "RuntimeError"
      [] outcome = "connect_timeout" -> "RuntimeError"
      [] outcome = "read_timeout" -> "TimeoutError"
      [] outcome = "bad_body" -> "JSONDecodeError"

\* line 196: except RuntimeError catches RuntimeError and its subclasses;
\* TimeoutError is an OSError, JSONDecodeError a ValueError
CaughtAsRuntimeError(type) == type = "RuntimeError"

\* "if api_key is None" in the place of "if not api_key"
KeyIsNone(key) == key = None

\* line 63: not api_key
KeyMissing(key) == key = None \/ key = <<>>

\* int(str) accepts an optional sign and decimal digits (surrounding whitespace
\* and underscores between digits are not among the inputs here)
IntOk(str) ==
    LET digits == IF str # <<>> /\ Head(str) \in {"+", "-"} THEN Tail(str) ELSE str
    IN  digits # <<>> /\ \A i \in 1..Len(digits) : digits[i] \in Digits

DigitValue(d) == CHOOSE n \in 0..9 : <<"0", "1", "2", "3", "4", "5", "6", "7", "8", "9">>[n + 1] = d

RECURSIVE NatValue(_)
NatValue(digits) ==
    IF digits = <<>> THEN 0
    ELSE 10 * NatValue(SubSeq(digits, 1, Len(digits) - 1)) + DigitValue(digits[Len(digits)])

IntValue(str) ==
    IF Head(str) = "-" THEN 0 - NatValue(Tail(str))
    ELSE IF Head(str) = "+" THEN NatValue(Tail(str))
    ELSE NatValue(str)

\* line 105: stats.get("viewCount") is truthy
Truthy(raw) == raw # None /\ raw # <<>>

\* line 180: max_results=10
max_results == 10

\* math.log10(views + 1) raises ValueError (math domain error)
Log10Raises(views) == views + 1 <= 0

(***************************************************************************)
(* _extract_video_ids and create_ytmusic_playlist (main.py 206-220).       *)
(***************************************************************************)
\* line 209: {11}
IdLen == 11

\* line 209: [A-Za-z0-9_-]
IdChars == UpperChars \cup LowerChars \cup Digits \cup {"_", "-"}

\* line 209: the pattern [?&]v=([A-Za-z0-9_-]{11}) matches at index i of url
IdMatchAt(url, i) ==
    /\ i + 2 + IdLen <= Len(url)
    /\ url[i] \in {"?", "&"}
    /\ url[i + 1] = "v"
    /\ url[i + 2] = "="
    /\ \A j \in i + 3..i + 2 + IdLen : url[j] \in IdChars

HasVideoId(url) == \E i \in 1..Len(url) : IdMatchAt(url, i)

\* m.group(1) of re.search: the group of the leftmost match
VideoIdOf(url) ==
    LET i == Least({j \in 1..Len(url) : IdMatchAt(url, j)})
    IN  SubSeq(url, i + 3, i + 2 + IdLen)

\* lines 206-212
RECURSIVE extract_video_ids(_)
extract_video_ids(urls) ==
    IF urls = <<>> THEN <<>>
    ELSE (IF HasVideoId(Head(urls)) THEN <<VideoIdOf(Head(urls))>> ELSE <<>>)
            \o extract_video_ids(Tail(urls))

\* the append is issued whatever the list
AddAlways(ids) == TRUE

\* line 218: if video_ids
AddNeeded(ids) == ids # <<>>

(***************************************************************************)
(* SpecClean: _clean_title on every short string over CleanAlphabet and on *)
(* a few titles of the shape the search returns, then on its own result.   *)
(***************************************************************************)
MaxCleanLen == 3

CleanAlphabet == {"m", "v", " ", "\n", "|", "-", "(", ")", "[", "]"}

SampleTitles ==
    {<<"I", "U", " ", "-", " ", "G", "o", "o", "d", " ", "D", "a", "y">>,
     <<"O", "f", "f", "i", "c", "i", "a", "l", " ", "L", "y", "r", "i", "c", " ", "V", "i", "d", "e", "o", ":", " ", "S", "o", "n", "g", " ", "[", "H", "D", "]">>,
     <<"l", "y", "r", "i", "c", " ", "m", "v", " ", "v", "i", "d", "e", "o">>,
     <<"S", "o", "n", "g", " ", "(", "O", "f", "f", "i", "c", "i", "a", "l", " ", "V", "i", "d", "e", "o", ")", " ", "|", " ", "L", "a", "b", "e", "l">>,
     <<"A", "C", "|", "D", "C", " ", "-", " ", "L", "i", "v", "e">>,
     <<"(", "(", "a", "u", "d", "i", "o", "x", ")", "a", "u", "d", "i", "o", "x", ")">>,
     <<"a", " ", "-", "\t">>,
     <<"I", "U", " ", "|", " ", "1", "t", "h", "e", "K">>,
     <<"m", " ", "|", "m">>,
     <<"S", "o", "n", "g", " ", "M", "/", "V", " ", "t", "e", "a", "s", "e", "r">>}

\* the pieces longer titles are put together from
MaxPieces == 2

TitlePieces ==
    {<<"o", "f", "f", "i", "c", "i", "a", "l">>,
     <<"O", "f", "f", "i", "c", "i", "a", "l">>,
     <<"v", "i", "d", "e", "o">>,
     <<"l", "y", "r", "i", "c">>,
     <<"A", "u", "d", "i", "o">>,
     <<"m", "v">>,
     <<"M", "/", "V">>,
     <<"t", "e", "a", "s", "e", "r">>,
     <<"(", "v", "e", "r", ".">>,
     <<"(">>,
     <<")">>,
     <<" ">>,
     <<"\t">>,
     <<"|">>,
     <<"s">>,
     <<"-">>}

RECURSIVE Concat(_)
Concat(strs) == IF strs = <<>> THEN <<>> ELSE Head(strs) \o Concat(Tail(strs))

PieceTitles == {Concat(l) : l \in ListsUpTo(TitlePieces, MaxPieces)}

CleanInputs == StringsUpTo(CleanAlphabet, MaxCleanLen) \cup PieceTitles \cup SampleTitles

CleanInit ==
    /\ pc = "clean"
    /\ s \in CleanInputs
    /\ keywords = Idle
    /\ query = Idle
    /\ query2 = Idle
    /\ cleaned = Idle
    /\ recleaned = Idle
    /\ video_title = Idle
    /\ channel_title = Idle
    /\ cleaned_t = Idle
    /\ channel_c = Idle
    /\ pat_k = 0
    /\ match_m = Idle
    /\ extracted = Idle
    /\ via = 0
    /\ kw_input = Idle
    /\ prefs = Idle
    /\ items = Idle
    /\ ranked = Idle
    /\ sc = Idle
    /\ user_input = Idle
    /\ api_key = Idle
    /\ http_calls = <<>>
    /\ fault = "none"
    /\ exc = "none"
    /\ n_ids = 0
    /\ response = <<>>
    /\ results = <<>>
    /\ printed = <<>>
    /\ status = "idle"
    /\ video_urls = <<>>
    /\ video_ids = <<>>
    /\ pl_id = "none"
    /\ ytm_calls = <<>>
    /\ returned = "none"

\* cleaned = _clean_title(s)
CleanTitle ==
    /\ pc = "clean"
    /\ cleaned' = clean_title(s)
    /\ pc' = "reclean"
    /\ UNCHANGED <<s, recleaned>>

\* recleaned = _clean_title(cleaned), as extract_title_artist re-cleans what it cut
\* out of a cleaned title
RecleanTitle ==
    /\ pc = "reclean"
    /\ recleaned' = clean_title(cleaned)
    /\ pc' = "done"
    /\ UNCHANGED <<s, cleaned>>

CleanNext ==
    \/ CleanTitle /\ UNCHANGED <<queryVars, extractVars, rankVars, cliVars, playlistVars>>
    \/ RecleanTitle /\ UNCHANGED <<queryVars, extractVars, rankVars, cliVars, playlistVars>>

SpecClean == CleanInit /\ [][CleanNext]_vars

Chars(str) == {str[i] : i \in 1..Len(str)}

\* a "|" that directly follows a whitespace character
SpacedPipeAt(str, i) == i >= 1 /\ i < Len(str) /\ IsSpace(str[i]) /\ str[i + 1] = "|"

HasSpacedPipe(str) == \E i \in 1..Len(str) : SpacedPipeAt(str, i)

\* C6 as claimed: whatever the title, the cleaned title holds no "|".
CleanedHasNoPipe == cleaned # Idle => "|" \notin Chars(cleaned)

\* C6: of a title without a line break, every "|" of the cleaned title directly
\* follows a character that is not whitespace: the title is cut at the first "|"
\* that follows whitespace, and only a "|" that follows none can stay.
CleanedHasNoSpacedPipe ==
    (cleaned # Idle /\ "\n" \notin Chars(s)) =>
        \A i \in 1..Len(cleaned) :
            cleaned[i] = "|" => (i > 1 /\ ~IsSpace(cleaned[i - 1]))

\* C6 witness: a title with text, whitespace, "|" and more text was cut at the pipe.
CutAtSpacedPipe ==
    /\ cleaned # Idle
    /\ "\n" \notin Chars(s)
    /\ \E i \in 2..Len(s) - 2 : SpacedPipeAt(s, i) /\ cleaned = SubSeq(s, 1, i - 1)
    /\ cleaned # <<>>

\* C7: _clean_title is idempotent: cleaning a cleaned title changes nothing.
CleanIdempotent == pc = "done" => recleaned = cleaned

(***************************************************************************)
(* SpecExtract: extract_title_artist, statement by statement, on short     *)
(* video titles over ExtractAlphabet and some longer ones, with a few      *)
(* channel titles.                                                         *)
(***************************************************************************)
MaxTitleLen == 4

ExtractAlphabet == {"a", " ", "-", EmDash, "\n"}

SampleVideoTitles ==
    {<<"I", "U", " ", "-", " ", "G", "o", "o", "d", " ", "D", "a", "y">>,
     <<"O", "f", "f", "i", "c", "i", "a", "l", " ", "L", "y", "r", "i", "c", " ", "V", "i", "d", "e", "o", ":", " ", "S", "o", "n", "g", " ", "[", "H", "D", "]">>,
     <<"G", "o", "o", "d", " ", "D", "a", "y", " ", EmDash, " ", "I", "U", " ", "(", "O", "f", "f", "i", "c", "i", "a", "l", " ", "M", "V", ")">>,
     <<"a", EmDash, "a", "-", "-", "\n">>,
     <<"[", "M", "V", "]", " ", "I", "U", " ", "-", " ", "B", "l", "u", "e", "m", "i", "n", "g", " ", "|", " ", "1", "t", "h", "e", "K">>,
     <<"[", "m", "v", "]">>}

ChannelTitles ==
    {<<>>,
     <<" ", " ">>,
     <<" ", "I", "U", " ", "O", "f", "f", "i", "c", "i", "a", "l", " ">>,
     <<"A", "r", "t", "i", "s", "t", " ", "-", " ", "T", "o", "p", "i", "c">>,
     <<"x", " ", "-", " ", "T", "O", "P", "I", "C">>,
     <<"-", " ", "T", "o", "p", "i", "c">>}

VideoTitleInputs ==
    {None} \cup StringsUpTo(ExtractAlphabet, MaxTitleLen) \cup SampleVideoTitles

ChannelTitleInputs == {None} \cup ChannelTitles

ExtractInit ==
    /\ pc = "extract"
    /\ video_title \in VideoTitleInputs
    /\ channel_title \in ChannelTitleInputs
    /\ keywords = Idle
    /\ query = Idle
    /\ query2 = Idle
    /\ s = Idle
    /\ cleaned = Idle
    /\ recleaned = Idle
    /\ cleaned_t = Idle
    /\ channel_c = Idle
    /\ pat_k = 0
    /\ match_m = Idle
    /\ extracted = Idle
    /\ via = 0
    /\ kw_input = Idle
    /\ prefs = Idle
    /\ items = Idle
    /\ ranked = Idle
    /\ sc = Idle
    /\ user_input = Idle
    /\ api_key = Idle
    /\ http_calls = <<>>
    /\ fault = "none"
    /\ exc = "none"
    /\ n_ids = 0
    /\ response = <<>>
    /\ results = <<>>
    /\ printed = <<>>
    /\ status = "idle"
    /\ video_urls = <<>>
    /\ video_ids = <<>>
    /\ pl_id = "none"
    /\ ytm_calls = <<>>
    /\ returned = "none"

\* lines 41-42, and the for loop starts
ExtractStart ==
    /\ pc = "extract"
    /\ cleaned_t' = clean_title(Or(video_title, <<>>))
    /\ channel_c' = StripChars(Or(channel_title, <<>>), WhiteSpace)
    /\ pat_k' = 1
    /\ pc' = "match"
    /\ UNCHANGED <<video_title, channel_title, match_m, extracted, via>>

\* lines 48-50: m = re.match(p, t) for the next pattern p
TryPattern ==
    /\ pc = "match"
    /\ pat_k <= Len(Patterns)
    /\ match_m' = PatternMatch(cleaned_t, Patterns[pat_k].sep)
    /\ IF match_m'.ok THEN pc' = "groups" /\ pat_k' = pat_k ELSE pc' = "match" /\ pat_k' = pat_k + 1
    /\ UNCHANGED <<video_title, channel_title, cleaned_t, channel_c, extracted, via>>

\* lines 51-54: the groups are cleaned; they are returned when both are non-empty
CleanGroups ==
    /\ pc = "groups"
    /\ LET g == CleanedGroups(Patterns[pat_k], match_m)
       IN  IF g.artist # <<>> /\ g.title # <<>>
           THEN extracted' = <<g.title, g.artist>> /\ via' = pat_k /\ pc' = "done" /\ pat_k' = pat_k
           ELSE pc' = "match" /\ pat_k' = pat_k + 1 /\ UNCHANGED <<extracted, via>>
    /\ UNCHANGED <<video_title, channel_title, cleaned_t, channel_c, match_m>>

\* lines 55-59: no pattern returned
Fallback ==
    /\ pc = "match"
    /\ pat_k > Len(Patterns)
    /\ extracted' = FallbackPair(cleaned_t, StripTopic(channel_c), video_title, channel_title)
    /\ via' = 0
    /\ pc' = "done"
    /\ UNCHANGED <<video_title, channel_title, cleaned_t, channel_c, pat_k, match_m>>

ExtractNext ==
    \/ ExtractStart /\ UNCHANGED <<queryVars, cleanVars, rankVars, cliVars, playlistVars>>
    \/ TryPattern /\ UNCHANGED <<queryVars, cleanVars, rankVars, cliVars, playlistVars>>
    \/ CleanGroups /\ UNCHANGED <<queryVars, cleanVars, rankVars, cliVars, playlistVars>>
    \/ Fallback /\ UNCHANGED <<queryVars, cleanVars, rankVars, cliVars, playlistVars>>

SpecExtract == ExtractInit /\ [][ExtractNext]_vars

\* t and c of extract_title_artist for the arguments of the state
CleanedVideoTitle == clean_title(Or(video_title, <<>>))
ProcessedChannel == StripTopic(StripChars(Or(channel_title, <<>>), WhiteSpace))

NoPatternYields == \A i \in 1..Len(Patterns) : ~PatternYields(Patterns[i], CleanedVideoTitle)

IsPyString(x) == x # None /\ x # Idle /\ x \in Seq(Chars(x))

\* C8: extract_title_artist returns a pair of strings for every video title and
\* channel title, None, empty and blank ones included; when no pattern gives two
\* non-empty cleaned groups the pair is (cleaned title, or else the trimmed video
\* title; processed channel, or else the trimmed channel title).
ExtractTotalWithFallback ==
    pc = "done" =>
        /\ Len(extracted) = 2
        /\ IsPyString(extracted[1])
        /\ IsPyString(extracted[2])
        /\ NoPatternYields =>
            /\ extracted[1] = IF CleanedVideoTitle # <<>> THEN CleanedVideoTitle
                              ELSE StripChars(Or(video_title, <<>>), WhiteSpace)
            /\ extracted[2] = IF ProcessedChannel # <<>> THEN ProcessedChannel
                              ELSE StripChars(Or(channel_title, <<>>), WhiteSpace)

\* C8 witness: a video title that cleans to nothing comes back trimmed, beside a
\* channel title that is None.
FellBackToOriginalTitle ==
    /\ pc = "done"
    /\ video_title # None
    /\ CleanedVideoTitle = <<>>
    /\ channel_title = None
    /\ extracted[1] # <<>>
    /\ extracted[2] = <<>>

\* C9: the second pattern never returns: whenever it matches with two non-empty
\* cleaned groups the first pattern has returned, and the pair is the one
\* extract_title_artist returns without the second pattern.
SecondPatternDead ==
    pc = "done" =>
        /\ via # 2
        /\ PatternYields(Patterns[2], CleanedVideoTitle) => via = 1
        /\ extracted =
             extract_with(<<Patterns[1], Patterns[3]>>, video_title, channel_title)

\* C9 witness: the second pattern matches with two non-empty cleaned groups, and
\* the pair is the first pattern's (the artist before the hyphen).
SecondPatternShadowed ==
    /\ pc = "done"
    /\ PatternYields(Patterns[2], CleanedVideoTitle)
    /\ via = 1
    /\ extracted[1] # extracted[2]

(***************************************************************************)
(* SpecRank: build_user_prefs, then rank_recommendations, item by item.    *)
(***************************************************************************)
MaxItems == 3
MaxPrefs == 2

\* the records ranked: as youtube_search_music builds them, and one with the
\* keys song_title, artist and views missing
Records ==
    {[song_title |-> <<"L", "i", "v", "e">>, artist |-> <<"I", "U">>, views |-> 99,
      url |-> "u1", title |-> <<"L", "i", "v", "e">>, channel |-> <<"I", "U">>],
     [song_title |-> <<"a", "l", "i", "v", "e">>, artist |-> <<"i", "u">>, views |-> 99,
      url |-> "u2", title |-> <<"a", "l", "i", "v", "e">>, channel |-> <<"i", "u">>],
     [song_title |-> <<"G", "o", "o", "d", " ", "D", "a", "y">>, artist |-> <<"I", "U">>, views |-> 9,
      url |-> "u3", title |-> <<"I", "U", " ", "-", " ", "G", "o", "o", "d", " ", "D", "a", "y">>, channel |-> <<"I", "U">>],
     [url |-> "u4", title |-> <<"l", "i", "v", "e", " ", "c", "o", "v", "e", "r">>,
      channel |-> <<"T", "o", "p", "i", "c">>]}

KeywordChoices == {<<"l", "i", "v", "e">>, <<"C", "o", "v", "e", "r", " ">>, <<" ">>, <<"i", "u">>}

KeywordStrings == {<<"I", "U", ",", " ", "l", "i", "v", "e">>, <<",", " ", "r", "e", "m", "i", "x">>}

PrefInputs ==
    {[isstr |-> FALSE, val |-> l] : l \in ListsUpTo(KeywordChoices, MaxPrefs)}
    \cup {[isstr |-> TRUE, val |-> str] : str \in KeywordStrings}

ItemInputs == ListsUpTo(Records, MaxItems)

RankInit ==
    /\ pc = "prefs"
    /\ kw_input \in PrefInputs
    /\ items \in ItemInputs
    /\ ranked = <<>>
    /\ keywords = Idle
    /\ query = Idle
    /\ query2 = Idle
    /\ s = Idle
    /\ cleaned = Idle
    /\ recleaned = Idle
    /\ video_title = Idle
    /\ channel_title = Idle
    /\ cleaned_t = Idle
    /\ channel_c = Idle
    /\ pat_k = 0
    /\ match_m = Idle
    /\ extracted = Idle
    /\ via = 0
    /\ prefs = Idle
    /\ sc = Idle
    /\ user_input = Idle
    /\ api_key = Idle
    /\ http_calls = <<>>
    /\ fault = "none"
    /\ exc = "none"
    /\ n_ids = 0
    /\ response = <<>>
    /\ results = <<>>
    /\ printed = <<>>
    /\ status = "idle"
    /\ video_urls = <<>>
    /\ video_ids = <<>>
    /\ pl_id = "none"
    /\ ytm_calls = <<>>
    /\ returned = "none"

\* line 189: prefs = build_user_prefs(keywords)
BuildPrefs ==
    /\ pc = "prefs"
    /\ prefs' = build_user_prefs(kw_input)
    /\ pc' = "rank"
    /\ UNCHANGED <<kw_input, items, ranked, sc>>

\* lines 161-165: one turn of the loop of rank_recommendations
ScoreItem ==
    /\ pc = "rank"
    /\ Len(ranked) < Len(items)
    /\ sc' = score_item(items[Len(ranked) + 1], prefs)
    /\ ranked' = Append(ranked, WithScore(items[Len(ranked) + 1], sc'.score))
    /\ UNCHANGED <<pc, kw_input, items, prefs>>

\* lines 166-167
SortRanked ==
    /\ pc = "rank"
    /\ Len(ranked) = Len(items)
    /\ ranked' = SortDescBy(ranked, "score", <<>>)
    /\ pc' = "done"
    /\ UNCHANGED <<kw_input, items, prefs, sc>>

RankNext ==
    \/ BuildPrefs /\ UNCHANGED <<queryVars, cleanVars, extractVars, cliVars, playlistVars>>
    \/ ScoreItem /\ UNCHANGED <<queryVars, cleanVars, extractVars, cliVars, playlistVars>>
    \/ SortRanked /\ UNCHANGED <<queryVars, cleanVars, extractVars, cliVars, playlistVars>>

SpecRank == RankInit /\ [][RankNext]_vars

WithoutScore(r) == [key \in DOMAIN r \ {"score"} |-> r[key]]

\* C1: rank_recommendations returns the records of its input, each once and none
\* else (a permutation of the input), by non-increasing score, records of equal
\* score in the order of the input.
RankIsStablePermutation ==
    pc = "done" =>
        /\ Len(ranked) = Len(items)
        /\ \A i, j \in 1..Len(ranked) : i < j => ranked[i].score >= ranked[j].score
        /\ \E pi \in Permutations(1..Len(items)) :
            /\ \A i \in 1..Len(items) : WithoutScore(ranked[i]) = items[pi[i]]
            /\ \A i, j \in 1..Len(items) :
                (i < j /\ ranked[i].score = ranked[j].score) => pi[i] < pi[j]

\* C1 witness: three records were ranked, two different ones of equal score among
\* them, and the order changed.
RankedWithTie ==
    /\ pc = "done"
    /\ Len(ranked) = 3
    /\ \E i \in 1..2 : /\ ranked[i].score = ranked[i + 1].score
                       /\ ranked[i].url # ranked[i + 1].url
    /\ WithoutScore(ranked[1]) # items[1]

Live == PenaltyTerms[1]

MaxVideos == 2

UserInputs == {<<>>, <<" ">>, <<"i", "u">>, <<"I", "U", ",", " ", "l", "i", "v", "e">>}

ApiKeys == {None, <<>>, <<"k", "e", "y">>}

\* statistics.viewCount of a video: missing, or a string
ViewCounts == {None, <<>>, <<"9">>, <<"9", "9">>, <<"-", "5">>, <<"1", "x">>}

CliInit ==
    /\ pc = "input"
    /\ user_input \in UserInputs
    /\ api_key \in ApiKeys
    /\ status = "running"
    /\ items = <<>>
    /\ ranked = <<>>
    /\ keywords = Idle
    /\ query = Idle
    /\ query2 = Idle
    /\ s = Idle
    /\ cleaned = Idle
    /\ recleaned = Idle
    /\ video_title = Idle
    /\ channel_title = Idle
    /\ cleaned_t = Idle
    /\ channel_c = Idle
    /\ pat_k = 0
    /\ match_m = Idle
    /\ extracted = Idle
    /\ via = 0
    /\ kw_input = Idle
    /\ prefs = Idle
    /\ sc = Idle
    /\ http_calls = <<>>
    /\ fault = "none"
    /\ exc = "none"
    /\ n_ids = 0
    /\ response = <<>>
    /\ results = <<>>
    /\ printed = <<>>
    /\ video_urls = <<>>
    /\ video_ids = <<>>
    /\ pl_id = "none"
    /\ ytm_calls = <<>>
    /\ returned = "none"

\* lines 169-177
ReadInput ==
    /\ pc = "input"
    /\ IF StripChars(user_input, WhiteSpace) = <<>>
       THEN /\ printed' = Append(printed, "empty_input")
            /\ pc' = "exit"
            /\ status' = "exited"
            /\ UNCHANGED <<keywords, query>>
       ELSE /\ keywords' = [isstr |-> FALSE,
                            val |-> StrippedNonEmpty(
                                        Split(StripChars(user_input, WhiteSpace), ","))]
            /\ query' = build_ytmusic_query(keywords')
            /\ printed' = printed \o <<"query", "search_url">>
            /\ pc' = "check_key"
            /\ UNCHANGED status
    /\ UNCHANGED <<query2, rankVars>>
    /\ UNCHANGED <<user_input, api_key, http_calls, fault, exc, n_ids, response, results>>

\* lines 62-64
CheckKey ==
    /\ pc = "check_key"
    /\ IF KeyMissing(api_key)
       THEN exc' = "RuntimeError" /\ pc' = "except"
       ELSE exc' = exc /\ pc' = "http_search"
    /\ UNCHANGED <<queryVars, rankVars>>
    /\ UNCHANGED <<user_input, api_key, http_calls, fault, n_ids, response, results,
                   printed, status>>

\* lines 66-81: the search request, and return [] when it gave no video id
HttpSearch ==
    /\ pc = "http_search"
    /\ http_calls' = Append(http_calls, "search")
    /\ \E outcome \in HttpOutcomes, n \in 0..MaxVideos :
        IF outcome = "ok"
        THEN /\ n_ids' = n
             /\ pc' = IF n = 0 THEN "print" ELSE "http_videos"
             /\ UNCHANGED <<fault, exc>>
        ELSE /\ fault' = outcome
             /\ exc' = RaisedBy(outcome)
             /\ pc' = "except"
             /\ UNCHANGED n_ids
    /\ UNCHANGED <<queryVars, rankVars>>
    /\ UNCHANGED <<user_input, api_key, response, results, printed, status>>

\* lines 83-91: the videos request
HttpVideos ==
    /\ pc = "http_videos"
    /\ http_calls' = Append(http_calls, "videos")
    /\ \E outcome \in HttpOutcomes, body \in ListsUpTo(ViewCounts, MaxVideos) :
        IF outcome = "ok"
        THEN /\ response' = body
             /\ pc' = "build"
             /\ UNCHANGED <<fault, exc>>
        ELSE /\ fault' = outcome
             /\ exc' = RaisedBy(outcome)
             /\ pc' = "except"
             /\ UNCHANGED response
    /\ UNCHANGED <<queryVars, rankVars>>
    /\ UNCHANGED <<user_input, api_key, n_ids, results, printed, status>>

\* lines 92-106: one turn of the loop; int() raises ValueError
BuildResult ==
    /\ pc = "build"
    /\ Len(results) < Len(response)
    /\ LET raw == response[Len(results) + 1]
       IN  IF Truthy(raw) /\ ~IntOk(raw)
           THEN /\ fault' = "bad_view_count"
                /\ exc' = "ValueError"
                /\ pc' = "except"
                /\ UNCHANGED results
           ELSE /\ results' = Append(results,
                                [url |-> Len(results) + 1,
                                 views |-> IF Truthy(raw) THEN IntValue(raw) ELSE 0])
                /\ UNCHANGED <<fault, exc, pc>>
    /\ UNCHANGED <<queryVars, rankVars>>
    /\ UNCHANGED <<user_input, api_key, http_calls, n_ids, response, printed, status>>

\* lines 108-109 and 180: items = the results by views, largest first, cut to max_results
SortResults ==
    /\ pc = "build"
    /\ Len(results) = Len(response)
    /\ LET sorted == SortDescBy(results, "views", <<>>)
       IN  items' = SubSeq(sorted, 1, IF Len(sorted) < max_results THEN Len(sorted)
                                      ELSE max_results)
    /\ pc' = "print"
    /\ UNCHANGED <<queryVars, kw_input, prefs, ranked, sc, cliVars>>

\* lines 181-187
PrintResults ==
    /\ pc = "print"
    /\ IF items = <<>>
       THEN /\ printed' = Append(printed, "no_results")
            /\ pc' = "exit"
            /\ status' = "exited"
       ELSE /\ printed' = Append(printed, "results")
            /\ pc' = "rank"
            /\ UNCHANGED status
    /\ UNCHANGED <<queryVars, rankVars>>
    /\ UNCHANGED <<user_input, api_key, http_calls, fault, exc, n_ids, response, results>>

\* lines 189-195; math.log10 raises ValueError on views + 1 <= 0
RankResults ==
    /\ pc = "rank"
    /\ prefs' = build_user_prefs(keywords)
    /\ IF \E i \in 1..Len(items) : Log10Raises(items[i].views)
       THEN /\ fault' = "bad_view_count"
            /\ exc' = "ValueError"
            /\ pc' = "except"
            /\ UNCHANGED <<ranked, printed, status>>
       ELSE /\ ranked' = SortDescBy(
                            [i \in 1..Len(items) |->
                                WithScore(items[i], score_item(items[i], prefs').score)],
                            "score", <<>>)
            /\ printed' = Append(printed, "ranking")
            /\ pc' = "exit"
            /\ status' = "exited"
            /\ UNCHANGED <<fault, exc>>
    /\ UNCHANGED <<queryVars, kw_input, items, sc>>
    /\ UNCHANGED <<user_input, api_key, http_calls, n_ids, response, results>>

\* lines 196-197: except RuntimeError as e: print(...)
ReportError ==
    /\ pc = "except"
    /\ CaughtAsRuntimeError(exc)
    /\ printed' = Append(printed, "api_error")
    /\ pc' = "exit"
    /\ status' = "exited"
    /\ UNCHANGED <<queryVars, rankVars>>
    /\ UNCHANGED <<user_input, api_key, http_calls, fault, exc, n_ids, response, results>>

\* no handler: the interpreter prints the traceback and exits with status 1
Uncaught ==
    /\ pc = "except"
    /\ ~CaughtAsRuntimeError(exc)
    /\ pc' = "exit"
    /\ status' = "traceback"
    /\ UNCHANGED <<queryVars, rankVars>>
    /\ UNCHANGED <<user_input, api_key, http_calls, fault, exc, n_ids, response, results,
                   printed>>

CliNext ==
    \/ ReadInput /\ UNCHANGED <<cleanVars, extractVars, playlistVars>>
    \/ CheckKey /\ UNCHANGED <<cleanVars, extractVars, playlistVars>>
    \/ HttpSearch /\ UNCHANGED <<cleanVars, extractVars, playlistVars>>
    \/ HttpVideos /\ UNCHANGED <<cleanVars, extractVars, playlistVars>>
    \/ BuildResult /\ UNCHANGED <<cleanVars, extractVars, playlistVars>>
    \/ SortResults /\ UNCHANGED <<cleanVars, extractVars, playlistVars>>
    \/ PrintResults /\ UNCHANGED <<cleanVars, extractVars, playlistVars>>
    \/ RankResults /\ UNCHANGED <<cleanVars, extractVars, playlistVars>>
    \/ ReportError /\ UNCHANGED <<cleanVars, extractVars, playlistVars>>
    \/ Uncaught /\ UNCHANGED <<cleanVars, extractVars, playlistVars>>

SpecCli == CliInit /\ [][CliNext]_vars

Count(seq, x) == Cardinality({i \in 1..Len(seq) : seq[i] = x})

\* C4: every failure of a search request (a non-2xx response, an unreachable
\* network, a timeout while connecting or reading, a malformed body or view
\* count) is reported as one failure message, and the process does not end on an
\* unhandled exception.
EveryFailureReported ==
    (pc = "exit" /\ fault # "none") =>
        (status = "exited" /\ Count(printed, "api_error") = 1)

\* C5: without an API key (unset or empty) no HTTP request is issued at any point
\* of the run, and the search ends in the one reported failure.
NoRequestWithoutKey ==
    (api_key = None \/ api_key = <<>>) =>
        /\ http_calls = <<>>
        /\ pc \notin {"http_search", "http_videos", "build", "print", "rank"}
        /\ (pc = "exit" /\ query # Idle) =>
                (status = "exited" /\ Count(printed, "api_error") = 1)

\* C5 witness: a search without API key ended, reported, and no request was issued.
FailedWithoutKey ==
    /\ api_key = <<>>
    /\ pc = "exit"
    /\ query # Idle
    /\ Count(printed, "api_error") = 1
    /\ http_calls = <<>>

(***************************************************************************)
(* SpecPlaylist: one call of create_ytmusic_playlist.                      *)
(***************************************************************************)
MaxUrls == 3

Urls ==
    {<<"h", "t", "t", "p", "s", ":", "/", "/", "w", "w", "w", ".", "y", "o", "u", "t", "u", "b", "e", ".", "c", "o", "m", "/", "w", "a", "t", "c", "h", "?", "v", "=", "a", "b", "c", "d", "e", "f", "g", "h", "i", "j", "k">>,
     <<"h", "t", "t", "p", "s", ":", "/", "/", "y", "o", "u", "t", "u", ".", "b", "e", "/", "A", "B", "C", "D", "E", "F", "G", "H", "I", "J", "K">>,
     <<"h", "t", "t", "p", "s", ":", "/", "/", "w", "w", "w", ".", "y", "o", "u", "t", "u", "b", "e", ".", "c", "o", "m", "/", "w", "a", "t", "c", "h", "?", "l", "i", "s", "t", "=", "P", "L", "1", "&", "v", "=", "A", "_", "c", "-", "0", "1", "2", "3", "4", "5", "6", "&", "t", "=", "9">>,
     <<"h", "t", "t", "p", "s", ":", "/", "/", "w", "w", "w", ".", "y", "o", "u", "t", "u", "b", "e", ".", "c", "o", "m", "/", "w", "a", "t", "c", "h", "?", "v", "=", "s", "h", "o", "r", "t">>,
     <<"w", "a", "t", "c", "h", "?", "v", "=", "b", "a", "d", "!", "&", "v", "=", "0", "1", "2", "3", "4", "5", "6", "7", "8", "9", "Z", "z", "z">>,
     <<"x", "v", "=", "a", "b", "c", "d", "e", "f", "g", "h", "i", "j", "k">>}

\* what ytm.create_playlist can return
PlaylistIds == {"PL_a", "PL_b"}

PlaylistInit ==
    /\ pc = "playlist"
    /\ video_urls \in ListsUpTo(Urls, MaxUrls)
    /\ keywords = Idle
    /\ query = Idle
    /\ query2 = Idle
    /\ s = Idle
    /\ cleaned = Idle
    /\ recleaned = Idle
    /\ video_title = Idle
    /\ channel_title = Idle
    /\ cleaned_t = Idle
    /\ channel_c = Idle
    /\ pat_k = 0
    /\ match_m = Idle
    /\ extracted = Idle
    /\ via = 0
    /\ kw_input = Idle
    /\ prefs = Idle
    /\ items = Idle
    /\ ranked = Idle
    /\ sc = Idle
    /\ user_input = Idle
    /\ api_key = Idle
    /\ http_calls = <<>>
    /\ fault = "none"
    /\ exc = "none"
    /\ n_ids = 0
    /\ response = <<>>
    /\ results = <<>>
    /\ printed = <<>>
    /\ status = "idle"
    /\ video_ids = <<>>
    /\ pl_id = "none"
    /\ ytm_calls = <<>>
    /\ returned = "none"

\* lines 215-216
ExtractIds ==
    /\ pc = "playlist"
    /\ video_ids' = extract_video_ids(video_urls)
    /\ pc' = "create"
    /\ UNCHANGED <<video_urls, pl_id, ytm_calls, returned>>

\* line 217
CreatePlaylist ==
    /\ pc = "create"
    /\ \E id \in PlaylistIds : pl_id' = id
    /\ ytm_calls' = Append(ytm_calls, [op |-> "create_playlist"])
    /\ pc' = "add"
    /\ UNCHANGED <<video_urls, video_ids, returned>>

\* lines 218-219
AddItems ==
    /\ pc = "add"
    /\ ytm_calls' = IF AddNeeded(video_ids)
                    THEN Append(ytm_calls, [op |-> "add_playlist_items",
                                            playlist |-> pl_id, ids |-> video_ids])
                    ELSE ytm_calls
    /\ pc' = "return"
    /\ UNCHANGED <<video_urls, video_ids, pl_id, returned>>

\* line 220
ReturnId ==
    /\ pc = "return"
    /\ returned' = pl_id
    /\ pc' = "done"
    /\ UNCHANGED <<video_urls, video_ids, pl_id, ytm_calls>>

PlaylistNext ==
    \/ ExtractIds /\ UNCHANGED <<queryVars, cleanVars, extractVars, rankVars, cliVars>>
    \/ CreatePlaylist /\ UNCHANGED <<queryVars, cleanVars, extractVars, rankVars, cliVars>>
    \/ AddItems /\ UNCHANGED <<queryVars, cleanVars, extractVars, rankVars, cliVars>>
    \/ ReturnId /\ UNCHANGED <<queryVars, cleanVars, extractVars, rankVars, cliVars>>

SpecPlaylist == PlaylistInit /\ [][PlaylistNext]_vars

\* the identifiers of the URLs of the state that match [?&]v=<11 characters>, in
\* the order of the URLs
MatchingUrls == SelectSeq(video_urls, HasVideoId)
ExpectedIds == [i \in 1..Len(MatchingUrls) |-> VideoIdOf(MatchingUrls[i])]

IsAdd(call) == call.op = "add_playlist_items"

\* C10: create_ytmusic_playlist creates one playlist and returns its identifier;
\* the append comes after the creation, at most once, for that playlist, with the
\* identifiers of the matching URLs in their order, and not at all when there is
\* none.
PlaylistCreatedThenFilled ==
    /\ Len(ytm_calls) <= 2
    /\ \A i \in 1..Len(ytm_calls) : IsAdd(ytm_calls[i]) <=> i = 2
    /\ Len(ytm_calls) = 2 =>
        /\ ytm_calls[2].playlist = pl_id
        /\ ytm_calls[2].ids = ExpectedIds
        /\ ExpectedIds # <<>>
    /\ pc \in {"return", "done"} => (Len(ytm_calls) = 2 <=> ExpectedIds # <<>>)
    /\ pc = "done" => (returned = pl_id /\ pl_id \in PlaylistIds /\ Len(ytm_calls) >= 1)

\* C10 witness: three URLs, one of them dropped; the playlist was created, two
\* identifiers were appended, and its identifier returned.
PlaylistFilledWithTwo ==
    /\ pc = "done"
    /\ Len(video_urls) = 3
    /\ Len(ytm_calls) = 2
    /\ Len(ytm_calls[2].ids) = 2
    /\ returned = pl_id

====
